---- MODULE Spec2Model ----
(***************************************************************************)
(* Model of the aircraft-alert server (src/main.go, src/models.go): the    *)
(* Hub goroutine, the SSE streaming handlers, the ingestion handler, the   *)
(* criteria handler and the alert-history handler, as communicating        *)
(* processes.  Sends on the Hub's unbuffered channels are rendezvous: the  *)
(* sender's step and the Hub's receive are one action.                     *)
(***************************************************************************)
EXTENDS Integers, Sequences, FiniteSets, TLC

\* ------------------------------------------------------------------ bounds

\* Capacity of a client's Send channel (256 in the code, scaled down).
SendCap == 2

\* The connections and requests of one run, each in the order of arrival
\* (each handler invocation runs once).
EndpointOrder == << "e1", "e2" >>
IngestOrder == << "r1", "r2" >>
CritOrder == << "k1", "k2" >>
GetOrder == << "g1", "g2" >>

Range(order) == { order[i] : i \in 1..Len(order) }

Endpoints == Range(EndpointOrder)
IngestReqs == Range(IngestOrder)
CritReqs == Range(CritOrder)
GetReqs == Range(GetOrder)

\* Those of the order that arrive before x.
Earlier(x, order) ==
    { order[i] : i \in { j \in 1..Len(order) : \E k \in j+1..Len(order) : order[k] = x } }

\* ------------------------------------------------------------- data model

NoOne == "none"

\* A time.Time value: the zero time, or the reading of one time.Now() call,
\* named by the call (the request, and 0 for the ingestion stamp or the index
\* of the criterion for an alert stamp).  Distinct calls read distinct times.
ZeroTime == << "zero", 0 >>
TimeNow(r, k) == << r, k >>

\* models.go Aircraft: only the fields the server's logic reads or sets.
MkAircraft(icao, callsign, ts) ==
    [icao |-> icao, callsign |-> callsign, timestamp |-> ts]

\* models.go AlertCriteria.
MkCriteria(icao, callsign) == [icao |-> icao, callsign |-> callsign]

ZeroAircraft == MkAircraft("", "", ZeroTime)
ZeroCriteria == MkCriteria("", "")

\* models.go Alert.
MkAlert(aircraft, message, criteria, ts) ==
    [aircraft |-> aircraft, message |-> message, criteria |-> criteria,
     timestamp |-> ts]

ZeroAlert == MkAlert(ZeroAircraft, "", ZeroCriteria, ZeroTime)

\* Request bodies of POST /api/aircraft: ok = FALSE is a body that is not JSON
\* of the expected shape.
AircraftBodies ==
    { [ok |-> FALSE, icao |-> "", callsign |-> ""],
      [ok |-> TRUE, icao |-> "AABBCC", callsign |-> "TARGET1"],
      [ok |-> TRUE, icao |-> "AABBCC", callsign |-> "Y"],
      [ok |-> TRUE, icao |-> "", callsign |-> ""] }

\* Request bodies of POST /api/alert-criteria.
CriteriaBodies ==
    { [ok |-> FALSE, icao |-> "", callsign |-> ""],
      [ok |-> TRUE, icao |-> "AABBCC", callsign |-> "X"],
      [ok |-> TRUE, icao |-> "AABBCC", callsign |-> ""],
      [ok |-> TRUE, icao |-> "", callsign |-> ""] }

\* A decoder whose error is ignored: the handler goes on with the zero value.
DecodeAircraftLenient(b) ==
    [err |-> FALSE,
     val |-> IF b.ok THEN MkAircraft(b.icao, b.callsign, ZeroTime)
                     ELSE ZeroAircraft]

\* json.NewDecoder(...).Decode(&aircraft): an error, or the decoded fields
\* over the zero value (the body carries no usable timestamp).
DecodeAircraft(b) ==
    [err |-> ~b.ok,
     val |-> IF b.ok THEN MkAircraft(b.icao, b.callsign, ZeroTime)
                     ELSE ZeroAircraft]

DecodeCriteria(b) ==
    [err |-> ~b.ok,
     val |-> IF b.ok THEN MkCriteria(b.icao, b.callsign) ELSE ZeroCriteria]

\* The SSE frame "event: <name>\ndata: <json>\n\n".
Frame(event, data) == [event |-> event, data |-> data]

\* A rule that asks every populated field to agree.
MatchesAll(criterion, aircraft) ==
    /\ criterion.icao # "" \/ criterion.callsign # ""
    /\ criterion.icao # "" => criterion.icao = aircraft.icao
    /\ criterion.callsign # "" => criterion.callsign = aircraft.callsign

\* The matching rule of the ingestion loop.
Matches(criterion, aircraft) ==
    \/ criterion.icao # "" /\ criterion.icao = aircraft.icao
    \/ criterion.callsign # "" /\ criterion.callsign = aircraft.callsign

AlertMessage(aircraft) ==
    "Monitored aircraft detected: " \o aircraft.callsign \o " (" \o
    aircraft.icao \o ")"

\* The criteria main() installs before serving.
InitialCriteria == << MkCriteria("", "TARGET1"), MkCriteria("AABBCC", "") >>

\* ------------------------------------------------------------------ state

VARIABLES
    alertCriteria,    \* var alertCriteria []AlertCriteria
    triggeredAlerts,  \* var triggeredAlerts []Alert
    mu,               \* var mu sync.Mutex: its holder, or NoOne
    clientCount,          \* hub.clients: how many entries it holds for each client
    hubPc,            \* Hub.run: "select", "fanout" (inside the range loop), "panic"
    hubMsg,           \* the message of the broadcast being fanned out
    hubTodo,          \* clients the range loop has not visited yet
    hubLog,           \* history: the messages the Hub received on broadcast
    hubMembers,       \* history: h.clients as each of them was received
    reqs,             \* history: the requests a direct caller handed to the Hub
    Send,             \* client.Send: the buffered messages
    closed,           \* client.Send is closed
    ep,               \* GET /api/events handlers
    ing,              \* POST /api/aircraft handlers
    crit,             \* POST /api/alert-criteria handlers
    get               \* GET /api/alerts handlers and the slices they returned

storeVars == << alertCriteria, triggeredAlerts, mu >>
hubVars == << clientCount, hubPc, hubMsg, hubTodo, hubLog, hubMembers, reqs >>
chanVars == << Send, closed >>
vars == << alertCriteria, triggeredAlerts, mu, clientCount, hubPc, hubMsg,
           hubTodo, hubLog, hubMembers, reqs, Send, closed, ep, ing, crit, get >>

\* The keys of the map hub.clients.
clients == { c \in Endpoints : clientCount[c] > 0 }

NoMsg == Frame("", ZeroAircraft)

Init ==
    /\ alertCriteria = InitialCriteria
    /\ triggeredAlerts = << >>
    /\ mu = NoOne
    /\ clientCount = [c \in Endpoints |-> 0]
    /\ hubPc = "select"
    /\ hubMsg = NoMsg
    /\ hubTodo = {}
    /\ hubLog = << >>
    /\ hubMembers = << >>
    /\ reqs = << >>
    /\ Send = [c \in Endpoints |-> << >>]
    /\ closed = [c \in Endpoints |-> FALSE]
    /\ ep = [c \in Endpoints |->
               [pc |-> "init", status |-> 0, received |-> << >>, regAt |-> 0,
                dropAt |-> 0, regs |-> 0, unregs |-> 0, exit |-> ""]]
    /\ ing = [r \in IngestReqs |->
                [pc |-> "idle", status |-> 0, body |-> CHOOSE b \in AircraftBodies : ~b.ok,
                 aircraft |-> ZeroAircraft, n |-> 0, i |-> 0,
                 alert |-> ZeroAlert, base |-> << >>]]
    /\ crit = [k \in CritReqs |->
                 [pc |-> "idle", status |-> 0,
                  body |-> CHOOSE b \in CriteriaBodies : ~b.ok,
                  criterion |-> ZeroCriteria]]
    /\ get = [g \in GetReqs |->
                [pc |-> "idle", status |-> 0, shared |-> FALSE, items |-> << >>]]

\* ------------------------------------------------------------------- Hub

\* A collection that takes one more entry for a client at every insertion.
MapPutAgain(m, c) == [m EXCEPT ![c] = @ + 1]

\* h.clients[client] = true: a map holds one entry for a key, whether or not
\* the key was present.
MapPut(m, c) == [m EXCEPT ![c] = 1]

\* A removal that leaves the entry in the map.
MapKeep(m, c) == m

\* delete(h.clients, client)
MapDelete(m, c) == [m EXCEPT ![c] = 0]

\* case client := <-h.register, as the Hub's state sees it.
RegisterCase(c) ==
    /\ hubPc = "select"
    /\ clientCount' = MapPut(clientCount, c)
    /\ UNCHANGED << hubPc, hubMsg, hubTodo, hubLog, hubMembers, chanVars >>

\* An unregister case that closes the queue without asking whether the client
\* is in the set.
UnregisterCaseUnguarded(c) ==
    /\ hubPc = "select"
    /\ clientCount' = MapDelete(clientCount, c)
    /\ closed' = [closed EXCEPT ![c] = TRUE]
    /\ hubPc' = IF closed[c] THEN "panic" ELSE "select"
    /\ UNCHANGED << hubMsg, hubTodo, hubLog, hubMembers, Send >>

\* case client := <-h.unregister, as the Hub's state sees it.
\* close(client.Send) on a closed channel panics.
UnregisterCase(c) ==
    /\ hubPc = "select"
    /\ IF c \in clients
         THEN /\ clientCount' = MapDelete(clientCount, c)
              /\ closed' = [closed EXCEPT ![c] = TRUE]
              /\ hubPc' = IF closed[c] THEN "panic" ELSE "select"
         ELSE UNCHANGED << clientCount, closed, hubPc >>
    /\ UNCHANGED << hubMsg, hubTodo, hubLog, hubMembers, Send >>

\* hub.register <- client, received by the Hub: the handler goes on to its
\* send loop.
HubRegister(c) ==
    /\ ep[c].pc = "register"
    /\ RegisterCase(c)
    /\ ep' = [ep EXCEPT ![c].pc = "loop", ![c].regAt = Len(hubLog),
                        ![c].regs = @ + 1]
    /\ UNCHANGED << storeVars, reqs, ing, crit, get >>

\* The deferred hub.unregister <- client, received by the Hub: the handler
\* returns.
HubUnregister(c) ==
    /\ ep[c].pc = "unregister"
    /\ UnregisterCase(c)
    /\ ep' = [ep EXCEPT ![c].pc = "closed", ![c].unregs = @ + 1,
                        ![c].exit = ""]
    /\ UNCHANGED << storeVars, reqs, ing, crit, get >>

\* The message an ingestion handler is blocked sending on hub.broadcast.
Outgoing(r) ==
    IF ing[r].pc = "sendUpdate"
      THEN Frame("aircraftUpdate", ing[r].aircraft)
      ELSE Frame("alert", ing[r].alert)

\* A loop that also visits the clients whose register request is still waiting.
RecipientsWithWaiting(members) ==
    members \cup { c \in Endpoints : ep[c].pc = "register" }

\* for client := range h.clients: the clients the loop visits.
Recipients(members) == members

\* case message := <-h.broadcast, as the Hub's state sees it: the receive and
\* the start of the range over h.clients.
BroadcastCase(message) ==
    /\ hubPc = "select"
    /\ hubMsg' = message
    /\ hubLog' = Append(hubLog, message)
    /\ hubMembers' = Append(hubMembers, clients)
    /\ hubTodo' = Recipients(clients)
    /\ hubPc' = IF Recipients(clients) = {} THEN "select" ELSE "fanout"
    /\ UNCHANGED << clientCount, chanVars >>

\* hub.broadcast <- message, received by the Hub, which releases the sender.
HubBroadcast(r) ==
    /\ ing[r].pc \in {"sendUpdate", "sendAlert"}
    /\ BroadcastCase(Outgoing(r))
    /\ ing' = [ing EXCEPT
                 ![r].pc = "match",
                 ![r].n = IF ing[r].pc = "sendUpdate" THEN Len(alertCriteria)
                                                     ELSE ing[r].n,
                 ![r].i = IF ing[r].pc = "sendUpdate" THEN 1 ELSE ing[r].i]
    /\ UNCHANGED << storeVars, reqs, ep, crit, get >>

\* A fullness test that is off by one.
QueueFullLate(q) == Len(q) > SendCap

\* The buffered channel has no room: the select takes its default case.
QueueFull(q) == Len(q) >= SendCap

\* A queue that hands out the newest message first.
EnqueueFront(q, m) == << m >> \o q

\* case client.Send <- message
Enqueue(q, m) == Append(q, m)

\* A range loop whose send has no default case: it waits for room.
HubDeliverBlocking(c) ==
    /\ hubPc = "fanout"
    /\ c \in hubTodo
    /\ ~closed[c]
    /\ ~QueueFull(Send[c])
    /\ hubTodo' = hubTodo \ {c}
    /\ hubPc' = IF hubTodo \ {c} = {} THEN "select" ELSE "fanout"
    /\ Send' = [Send EXCEPT ![c] = Enqueue(@, hubMsg)]
    /\ UNCHANGED << storeVars, clientCount, closed, ep, hubMsg, hubLog,
                    hubMembers, reqs, ing, crit, get >>

\* One iteration of the range loop: the non-blocking send to one client, or
\* its removal.  A send on a closed channel panics.
HubDeliver(c) ==
    /\ hubPc = "fanout"
    /\ c \in hubTodo
    /\ hubTodo' = hubTodo \ {c}
    /\ IF closed[c]
         THEN /\ hubPc' = "panic"
              /\ UNCHANGED << clientCount, Send, closed, ep >>
         ELSE /\ hubPc' = IF hubTodo \ {c} = {} THEN "select" ELSE "fanout"
              /\ IF QueueFull(Send[c])
                   THEN /\ clientCount' = MapDelete(clientCount, c)
                        /\ closed' = [closed EXCEPT ![c] = TRUE]
                        /\ Send' = Send
                        /\ ep' = [ep EXCEPT ![c].dropAt = Len(hubLog)]
                   ELSE /\ Send' = [Send EXCEPT ![c] = Enqueue(@, hubMsg)]
                        /\ UNCHANGED << clientCount, closed, ep >>
    /\ UNCHANGED << storeVars, hubMsg, hubLog, hubMembers, reqs, ing, crit, get >>

\* ------------------------------------------------- GET /api/events handler

\* A handler that notes the 500 answer and goes on to register its client.
EpStartRegisters(c, canFlush) ==
    /\ ep[c].pc = "init"
    /\ \A d \in Earlier(c, EndpointOrder) : ep[d].pc # "init"
    /\ ep' = [ep EXCEPT ![c].pc = "register",
                        ![c].status = IF canFlush THEN 0 ELSE 500]
    /\ UNCHANGED << storeVars, hubVars, chanVars, ing, crit, get >>

\* The flusher check: a transport that cannot stream is answered 500.
EpStart(c, canFlush) ==
    /\ ep[c].pc = "init"
    /\ \A d \in Earlier(c, EndpointOrder) : ep[d].pc # "init"
    /\ ep' = [ep EXCEPT ![c].pc = IF canFlush THEN "register" ELSE "rejected",
                        ![c].status = IF canFlush THEN 0 ELSE 500]
    /\ UNCHANGED << storeVars, hubVars, chanVars, ing, crit, get >>

\* A handler whose write-error path returns without the unregister request.
EpRecvNoUnregister(c, writeOk) ==
    /\ ep[c].pc = "loop"
    /\ Send[c] # << >>
    /\ Send' = [Send EXCEPT ![c] = Tail(@)]
    /\ ep' = [ep EXCEPT ![c].received = Append(@, Head(Send[c])),
                        ![c].pc = IF writeOk THEN "loop" ELSE "closed",
                        ![c].exit = IF writeOk THEN "" ELSE "write"]
    /\ UNCHANGED << storeVars, hubVars, closed, ing, crit, get >>

\* case message, open := <-client.Send with a message buffered, then the
\* write to the connection, which may fail.
EpRecv(c, writeOk) ==
    /\ ep[c].pc = "loop"
    /\ Send[c] # << >>
    /\ Send' = [Send EXCEPT ![c] = Tail(@)]
    /\ ep' = [ep EXCEPT ![c].received = Append(@, Head(Send[c])),
                        ![c].pc = IF writeOk THEN "loop" ELSE "unregister",
                        ![c].exit = IF writeOk THEN "" ELSE "write"]
    /\ UNCHANGED << storeVars, hubVars, closed, ing, crit, get >>

\* A receive that reports a closed channel while messages are still buffered.
EpSeesClosedEarly(c) ==
    /\ ep[c].pc = "loop"
    /\ closed[c]
    /\ ep' = [ep EXCEPT ![c].pc = "unregister", ![c].exit = "closed"]
    /\ UNCHANGED << storeVars, hubVars, chanVars, ing, crit, get >>

\* case message, open := <-client.Send on the drained, closed channel.
EpSeesClosed(c) ==
    /\ ep[c].pc = "loop"
    /\ Send[c] = << >>
    /\ closed[c]
    /\ ep' = [ep EXCEPT ![c].pc = "unregister", ![c].exit = "closed"]
    /\ UNCHANGED << storeVars, hubVars, chanVars, ing, crit, get >>

\* A handler that returns on cancellation without the unregister request.
EpCancelNoUnregister(c) ==
    /\ ep[c].pc = "loop"
    /\ ep' = [ep EXCEPT ![c].pc = "closed", ![c].exit = "cancel"]
    /\ UNCHANGED << storeVars, hubVars, chanVars, ing, crit, get >>

\* case <-c.Request.Context().Done(): the handler returns, and its deferred
\* function blocks on hub.unregister.
EpCancel(c) ==
    /\ ep[c].pc = "loop"
    /\ ep' = [ep EXCEPT ![c].pc = "unregister", ![c].exit = "cancel"]
    /\ UNCHANGED << storeVars, hubVars, chanVars, ing, crit, get >>

\* ------------------------------------------------ POST /api/aircraft handler

\* Decode, the 400 answer, and aircraft.Timestamp = time.Now().
IngestDecode(r, b) ==
    /\ ing[r].pc = "idle"
    /\ \A q \in Earlier(r, IngestOrder) : ing[q].pc # "idle"
    /\ LET d == DecodeAircraft(b) IN
         IF d.err
           THEN /\ ing' = [ing EXCEPT ![r].pc = "done", ![r].status = 400,
                                      ![r].body = b]
           ELSE /\ ing' = [ing EXCEPT
                             ![r].pc = "lock", ![r].body = b,
                             ![r].aircraft = [d.val EXCEPT !.timestamp = TimeNow(r, 0)]]
    /\ UNCHANGED << alertCriteria, triggeredAlerts, mu, hubVars, chanVars, ep, crit, get >>

\* A lock that never makes its caller wait.
CanLockAlways(holder) == TRUE

\* mu.Lock() returns only when no one holds mu.
CanLock(holder) == holder = NoOne

\* A handler that takes the lock and goes straight to matching.
IngestLockNoUpdate(r) ==
    /\ ing[r].pc = "lock"
    /\ CanLock(mu)
    /\ mu' = r
    /\ ing' = [ing EXCEPT ![r].pc = "match", ![r].n = Len(alertCriteria),
                          ![r].i = 1]
    /\ UNCHANGED << alertCriteria, triggeredAlerts, hubVars, chanVars, ep, crit, get >>

\* mu.Lock(); json.Marshal of a decoded Aircraft does not fail.
IngestLock(r) ==
    /\ ing[r].pc = "lock"
    /\ CanLock(mu)
    /\ mu' = r
    /\ ing' = [ing EXCEPT ![r].pc = "sendUpdate"]
    /\ UNCHANGED << alertCriteria, triggeredAlerts, hubVars, chanVars, ep, crit, get >>

\* The indices the range loop has still to visit whose criterion matches.
Pending(r) ==
    { j \in ing[r].i .. ing[r].n : Matches(alertCriteria[j], ing[r].aircraft) }

Min(S) == CHOOSE x \in S : \A y \in S : x <= y

\* The range loop up to its next match (the Alert is built and the slice
\* triggeredAlerts is loaded for append), or to its end: mu.Unlock() and 200.
IngestMatch(r) ==
    /\ ing[r].pc = "match"
    /\ IF Pending(r) = {}
         THEN /\ mu' = NoOne
              /\ ing' = [ing EXCEPT ![r].pc = "done", ![r].status = 200,
                                    ![r].i = ing[r].n + 1]
         ELSE LET j == Min(Pending(r)) IN
              /\ ing' = [ing EXCEPT
                           ![r].pc = "append",
                           ![r].i = j + 1,
                           ![r].alert = MkAlert(ing[r].aircraft,
                                                AlertMessage(ing[r].aircraft),
                                                alertCriteria[j], TimeNow(r, j)),
                           ![r].base = triggeredAlerts]
              /\ mu' = mu
    /\ UNCHANGED << alertCriteria, triggeredAlerts, hubVars, chanVars, ep, crit, get >>

\* An append that puts the new Alert in front.
PrependAlert(log, alert) == << alert >> \o log

\* append(triggeredAlerts, alert)
AppendAlert(log, alert) == Append(log, alert)

\* triggeredAlerts = append(triggeredAlerts, alert): the store of the result.
IngestAppend(r) ==
    /\ ing[r].pc = "append"
    /\ triggeredAlerts' = AppendAlert(ing[r].base, ing[r].alert)
    /\ ing' = [ing EXCEPT ![r].pc = "sendAlert", ![r].base = << >>]
    /\ UNCHANGED << alertCriteria, mu, hubVars, chanVars, ep, crit, get >>

\* ------------------------------------------ POST /api/alert-criteria handler

CritDecode(k, b) ==
    /\ crit[k].pc = "idle"
    /\ \A q \in Earlier(k, CritOrder) : crit[q].pc # "idle"
    /\ LET d == DecodeCriteria(b) IN
         crit' = [crit EXCEPT
                    ![k].pc = IF d.err THEN "done" ELSE "lock",
                    ![k].status = IF d.err THEN 400 ELSE 0,
                    ![k].body = b,
                    ![k].criterion = d.val]
    /\ UNCHANGED << storeVars, hubVars, chanVars, ep, ing, get >>

\* mu.Lock(); alertCriteria = append(alertCriteria, criterion); mu.Unlock();
\* then the 201 answer.
CritAppend(k) ==
    /\ crit[k].pc = "lock"
    /\ CanLock(mu)
    /\ alertCriteria' = Append(alertCriteria, crit[k].criterion)
    /\ crit' = [crit EXCEPT ![k].pc = "done", ![k].status = 201]
    /\ UNCHANGED << triggeredAlerts, mu, hubVars, chanVars, ep, ing, get >>

\* ------------------------------------------------- GET /api/alerts handler

\* A handler that returns the slice triggeredAlerts itself.
SnapshotAlertsAliased(log) == [shared |-> TRUE, items |-> log]

\* make([]Alert, len(triggeredAlerts)) and copy: a slice with a backing array
\* of its own (shared = FALSE) holding the elements of the log.
SnapshotAlerts(log) == [shared |-> FALSE, items |-> log]

\* mu.Lock(); the copy; the 200 answer; the deferred mu.Unlock().
GetAlerts(g) ==
    /\ get[g].pc = "idle"
    /\ \A h \in Earlier(g, GetOrder) : get[h].pc # "idle"
    /\ CanLock(mu)
    /\ get' = [get EXCEPT ![g] = [pc |-> "done", status |-> 200,
                                  shared |-> SnapshotAlerts(triggeredAlerts).shared,
                                  items |-> SnapshotAlerts(triggeredAlerts).items]]
    /\ UNCHANGED << storeVars, hubVars, chanVars, ep, ing, crit >>

\* The caller of the snapshot overwrites element i of the slice it was given;
\* a slice sharing the log's backing array writes through to the log.
CallerMutates(g, i) ==
    /\ get[g].pc = "done"
    /\ i \in 1..Len(get[g].items)
    /\ get' = [get EXCEPT ![g].pc = "mutated", ![g].items[i] = ZeroAlert]
    /\ triggeredAlerts' =
         IF get[g].shared /\ i <= Len(triggeredAlerts)
           THEN [triggeredAlerts EXCEPT ![i] = ZeroAlert]
           ELSE triggeredAlerts
    /\ UNCHANGED << alertCriteria, mu, hubVars, chanVars, ep, ing, crit >>

\* ------------------------------------------------------------ specification

\* The requests of the streaming system: one ingestion and one criteria post
\* beside the two connections.
HubIngest == {"r1"}
HubCrit == {"k1"}
HubCritBodies ==
    { b \in CriteriaBodies : ~b.ok \/ (b.icao = "AABBCC" /\ b.callsign = "X") }

\* The Hub, the streaming connections, and the requests that feed them.
Next ==
    \/ \E c \in Endpoints : HubRegister(c)
    \/ \E c \in Endpoints : HubUnregister(c)
    \/ \E r \in HubIngest : HubBroadcast(r)
    \/ \E c \in Endpoints : HubDeliver(c)
    \/ \E c \in Endpoints, f \in BOOLEAN : EpStart(c, f)
    \/ \E c \in Endpoints, w \in BOOLEAN : EpRecv(c, w)
    \/ \E c \in Endpoints : EpSeesClosed(c)
    \/ \E c \in Endpoints : EpCancel(c)
    \/ \E r \in HubIngest, b \in AircraftBodies : IngestDecode(r, b)
    \/ \E r \in HubIngest : IngestLock(r)
    \/ \E r \in HubIngest : IngestMatch(r)
    \/ \E r \in HubIngest : IngestAppend(r)
    \/ \E k \in HubCrit, b \in HubCritBodies : CritDecode(k, b)
    \/ \E k \in HubCrit : CritAppend(k)

Spec == Init /\ [][Next]_vars

\* The store under concurrent requests, with no streaming connection open.
StoreNext ==
    \/ \E r \in IngestReqs : HubBroadcast(r)
    \/ \E r \in IngestReqs, b \in AircraftBodies : IngestDecode(r, b)
    \/ \E r \in IngestReqs : IngestLock(r)
    \/ \E r \in IngestReqs : IngestMatch(r)
    \/ \E r \in IngestReqs : IngestAppend(r)
    \/ \E k \in CritReqs, b \in CriteriaBodies : CritDecode(k, b)
    \/ \E k \in CritReqs : CritAppend(k)
    \/ \E g \in GetReqs : GetAlerts(g)
    \/ \E g \in GetReqs : \E i \in 1..Len(get[g].items) : CallerMutates(g, i)

StoreSpec == Init /\ [][StoreNext]_vars

\* Concurrent ingestions and a criteria post beside one streaming connection.
MixEndpoints == {"e1"}

MixNext ==
    \/ \E c \in MixEndpoints : HubRegister(c)
    \/ \E c \in MixEndpoints : HubUnregister(c)
    \/ \E r \in IngestReqs : HubBroadcast(r)
    \/ \E c \in MixEndpoints : HubDeliver(c)
    \/ \E c \in MixEndpoints, f \in BOOLEAN : EpStart(c, f)
    \/ \E c \in MixEndpoints, w \in BOOLEAN : EpRecv(c, w)
    \/ \E c \in MixEndpoints : EpSeesClosed(c)
    \/ \E c \in MixEndpoints : EpCancel(c)
    \/ \E r \in IngestReqs, b \in AircraftBodies : IngestDecode(r, b)
    \/ \E r \in IngestReqs : IngestLock(r)
    \/ \E r \in IngestReqs : IngestMatch(r)
    \/ \E r \in IngestReqs : IngestAppend(r)
    \/ \E k \in HubCrit, b \in HubCritBodies : CritDecode(k, b)
    \/ \E k \in HubCrit : CritAppend(k)

MixSpec == Init /\ [][MixNext]_vars

\* ------------------------------------------------ the Hub under any caller

\* The number of requests the direct caller makes.
MaxReqs == 5

\* The message the direct caller broadcasts.
CallMsg == Frame("aircraftUpdate", ZeroAircraft)

\* Any goroutine may use the three channels of the Hub, in any order and for
\* any client, a client it has registered or unregistered before included.
CallRegister(c) ==
    /\ Len(reqs) < MaxReqs
    /\ RegisterCase(c)
    /\ reqs' = Append(reqs, << "register", c >>)
    /\ UNCHANGED << storeVars, ep, ing, crit, get >>

CallUnregister(c) ==
    /\ Len(reqs) < MaxReqs
    /\ UnregisterCase(c)
    /\ reqs' = Append(reqs, << "unregister", c >>)
    /\ UNCHANGED << storeVars, ep, ing, crit, get >>

CallBroadcast ==
    /\ Len(reqs) < MaxReqs
    /\ BroadcastCase(CallMsg)
    /\ reqs' = Append(reqs, << "broadcast", NoOne >>)
    /\ UNCHANGED << storeVars, ep, ing, crit, get >>

\* <-client.Send by the caller, while a message is buffered.
CallRecv(c) ==
    /\ Send[c] # << >>
    /\ Send' = [Send EXCEPT ![c] = Tail(@)]
    /\ ep' = [ep EXCEPT ![c].received = Append(@, Head(Send[c]))]
    /\ UNCHANGED << storeVars, hubVars, closed, ing, crit, get >>

HubNext ==
    \/ \E c \in Endpoints : CallRegister(c)
    \/ \E c \in Endpoints : CallUnregister(c)
    \/ CallBroadcast
    \/ \E c \in Endpoints : HubDeliver(c)
    \/ \E c \in Endpoints : CallRecv(c)

HubSpec == Init /\ [][HubNext]_vars

\* ------------------------------------------------------- fair scheduling

\* The Hub goroutine keeps running: a started range loop goes on to its next
\* client, and a sender blocked on hub.register or hub.unregister is served
\* in the end, since select chooses among its ready cases at random.
FairSpec ==
    /\ Spec
    /\ WF_vars(\E c \in Endpoints : HubDeliver(c))
    /\ \A c \in Endpoints : SF_vars(HubRegister(c))
    /\ \A c \in Endpoints : SF_vars(HubUnregister(c))

\* The goroutines of the ingestion handlers keep running as well: a handler
\* that can take its next step takes it, the Hub receives from a sender blocked
\* on hub.broadcast, and mu.Lock() returns once mu stays free.  Nothing is
\* assumed of the streaming connections: an endpoint may never read.
LiveSpec ==
    /\ MixSpec
    /\ WF_vars(\E c \in MixEndpoints : HubDeliver(c))
    /\ \A r \in IngestReqs : SF_vars(HubBroadcast(r))
    /\ \A r \in IngestReqs : WF_vars(IngestLock(r))
    /\ \A r \in IngestReqs : WF_vars(IngestMatch(r))
    /\ \A r \in IngestReqs : WF_vars(IngestAppend(r))

\* The handler goroutines of the streaming connections run as well: a handler
\* whose select has a ready receive takes it in the end.
DrainSpec ==
    /\ FairSpec
    /\ \A c \in Endpoints : WF_vars(\E w \in BOOLEAN : EpRecv(c, w))
    /\ \A c \in Endpoints : WF_vars(EpSeesClosed(c))

\* ---------------------------------------------------------------- helpers

RangeOf(seq) == { seq[i] : i \in 1..Len(seq) }

\* What the Hub has enqueued for c so far, in order: what the endpoint has
\* read from client.Send followed by what is still buffered.
Delivered(c) == ep[c].received \o Send[c]

\* The current broadcast has not reached c yet.
AwaitsVisit(c) == hubPc = "fanout" /\ c \in hubTodo

\* The range loop visits c in this step.
Visits(c) == hubPc = "fanout" /\ c \in hubTodo /\ c \notin hubTodo'

\* c has been enqueued every broadcast the Hub received since c's registration
\* (but the current one, while the loop has not reached c).
GetsEveryBroadcast(c) ==
    Len(Delivered(c)) =
        Len(hubLog) - ep[c].regAt - (IF AwaitsVisit(c) THEN 1 ELSE 0)

\* The matching rule as the specification words it.
ClaimMatch(criterion, aircraft) ==
    \/ (criterion.icao # "" /\ criterion.icao = aircraft.icao)
    \/ (criterion.callsign # "" /\ criterion.callsign = aircraft.callsign)

\* Ingestion r stamped the aircraft of this Aircraft or Alert record.
IsOf(r, aircraft) == aircraft.timestamp = TimeNow(r, 0)

\* The Alerts of ingestion r in a sequence of Alerts, in order.
AlertsOfIn(r, log) ==
    LET Mine(al) == IsOf(r, al.aircraft) IN SelectSeq(log, Mine)

\* The broadcasts the Hub received, by event.
EventsOf(event) ==
    LET Is(m) == m.event = event IN SelectSeq(hubLog, Is)

DataOf(msgs) == [k \in 1..Len(msgs) |-> msgs[k].data]

\* The aircraftUpdate broadcasts of ingestion r, and the Alerts of its alert
\* broadcasts, in the order the Hub received them.
UpdatesOf(r) ==
    LET Mine(a) == IsOf(r, a) IN SelectSeq(DataOf(EventsOf("aircraftUpdate")), Mine)

AlertEventsOf(r) == AlertsOfIn(r, DataOf(EventsOf("alert")))

\* Ingestion r ends in this step with the 200 answer.
Completes(r) ==
    ing[r].pc # "done" /\ ing'[r].pc = "done" /\ ing'[r].status = 200

\* The number of times x occurs in seq.
Count(x, seq) == Cardinality({ i \in 1..Len(seq) : seq[i] = x })

\* ------------------------------------------------------------------ claims

\* C1: every client receives the broadcasts in the order the Hub processed
\* them, without reordering or duplication: what a client has been enqueued is
\* the run of the Hub's broadcast sequence that starts right after the
\* client's registration, and for a client still in the Hub's set (no overflow,
\* no unregister) that run reaches the Hub's latest broadcast; K clients
\* registered before M1, M2, M3 get exactly [M1, M2, M3].
C1_BroadcastOrder ==
    \A c \in Endpoints :
        /\ Delivered(c) =
             SubSeq(hubLog, ep[c].regAt + 1, ep[c].regAt + Len(Delivered(c)))
        /\ c \in clients => GetsEveryBroadcast(c)
        /\ (c \in clients /\ ep[c].regAt = 0 /\ hubPc = "select")
              => Delivered(c) = hubLog

\* Both clients registered before the first broadcast and have read exactly
\* the three messages M1, M2, M3 the Hub processed.
C1_Witness ==
    /\ Len(hubLog) = 3
    /\ Cardinality(RangeOf(hubLog)) = 3
    /\ clients = Endpoints
    /\ \A c \in Endpoints : ep[c].regAt = 0 /\ ep[c].received = hubLog

\* C2: a registered client whose queue is full when the broadcast reaches it
\* is removed from the set and its queue closed in that broadcast; every other
\* registered client whose queue has room is enqueued that message, stays
\* registered, and goes on being enqueued every later broadcast.
C2_OverflowIsolation ==
    /\ [][\A c \in Endpoints :
            Visits(c) =>
              /\ c \in clients
              /\ IF Len(Send[c]) >= SendCap
                   THEN /\ c \notin clients'
                        /\ closed'[c]
                        /\ Send'[c] = Send[c]
                   ELSE /\ c \in clients'
                        /\ ~closed'[c]
                        /\ Send'[c] = Append(Send[c], hubLog[Len(hubLog)])
              /\ \A d \in Endpoints \ {c} :
                   /\ d \in clients' <=> d \in clients
                   /\ closed'[d] = closed[d]
                   /\ Send'[d] = Send[d]]_vars
    /\ [](\A c \in clients : GetsEveryBroadcast(c) /\ Len(Send[c]) <= SendCap)

\* One client was dropped with a full queue by a broadcast, and the other, still
\* registered, has been enqueued that broadcast and a later one.
C2_Witness ==
    \E c, d \in Endpoints :
        /\ c # d
        /\ ep[c].dropAt > 0
        /\ closed[c] /\ c \notin clients
        /\ d \in clients /\ ep[d].regAt = 0
        /\ hubPc = "select"
        /\ Len(hubLog) > ep[c].dropAt
        /\ Delivered(d) = hubLog

\* C3: an ingestion appends to the alert log exactly one Alert per criterion
\* whose non-empty icao equals the aircraft's or whose non-empty callsign
\* equals the aircraft's, in the order of the criteria list and without
\* deduplication; each Alert records the ingested aircraft, the criterion that
\* triggered it and the message.
C3_OneAlertPerMatch ==
    [][\A r \in IngestReqs :
         Completes(r) =>
           LET a == ing[r].aircraft
               Hit(c) == ClaimMatch(c, a)
               hits == SelectSeq(alertCriteria, Hit)
               mine == AlertsOfIn(r, triggeredAlerts)
           IN  /\ a.icao = ing[r].body.icao
               /\ a.callsign = ing[r].body.callsign
               /\ Len(mine) = Len(hits)
               /\ \A k \in 1..Len(mine) :
                    /\ mine[k].aircraft = a
                    /\ mine[k].criteria = hits[k]
                    /\ mine[k].message = AlertMessage(a)]_vars

\* A completed ingestion of AABBCC/Y with the criteria list holding {TARGET1},
\* {AABBCC}, {AABBCC, X} and {}: it appended two Alerts, one for {AABBCC} and
\* one for {AABBCC, X}, whose callsign differs from the aircraft's.
C3_Witness ==
    \E r \in IngestReqs :
        /\ ing[r].pc = "done" /\ ing[r].status = 200
        /\ ing[r].aircraft.icao = "AABBCC" /\ ing[r].aircraft.callsign = "Y"
        /\ ing[r].n = 4
        /\ alertCriteria[3] = MkCriteria("AABBCC", "X")
        /\ alertCriteria[4] = MkCriteria("", "")
        /\ LET mine == AlertsOfIn(r, triggeredAlerts) IN
             /\ Len(mine) = 2
             /\ mine[1].criteria = MkCriteria("AABBCC", "")
             /\ mine[2].criteria = MkCriteria("AABBCC", "X")

\* C4: a decoded ingestion submits exactly one aircraftUpdate broadcast, sent
\* before its matching starts, and one alert broadcast per Alert it appended:
\* when it has completed, its alert broadcasts carry exactly the Alerts it
\* appended to the log, in order; a rejected one submits nothing.
C4_BroadcastsPerIngestion ==
    \A r \in IngestReqs :
        /\ Len(UpdatesOf(r)) =
             (IF ing[r].pc \in {"match", "append", "sendAlert"}
                 \/ (ing[r].pc = "done" /\ ing[r].status = 200)
               THEN 1 ELSE 0)
        /\ UpdatesOf(r) # << >> => UpdatesOf(r)[1] = ing[r].aircraft
        /\ Len(AlertsOfIn(r, triggeredAlerts)) =
             Len(AlertEventsOf(r)) + (IF ing[r].pc = "sendAlert" THEN 1 ELSE 0)
        /\ ing[r].pc = "done" =>
             AlertEventsOf(r) = AlertsOfIn(r, triggeredAlerts)

\* Both ingestions have completed; one broadcast its update and no alert, the
\* other its update and two alerts.
C4_Witness ==
    \E r, q \in IngestReqs :
        /\ ing[r].pc = "done" /\ ing[r].status = 200
        /\ ing[q].pc = "done" /\ ing[q].status = 200
        /\ Len(UpdatesOf(r)) = 1 /\ Len(AlertEventsOf(r)) = 0
        /\ Len(UpdatesOf(q)) = 1 /\ Len(AlertEventsOf(q)) = 2
        /\ Len(hubLog) = 4

\* C5: a POST /api/aircraft whose body does not decode is answered 400 in the
\* step that reads it, and that step leaves the alert log, the criteria list,
\* the lock, the Hub's client set, every client's queue and the Hub's broadcast
\* sequence unchanged; the request never appends an Alert or sends a broadcast.
C5_MalformedIngestion ==
    /\ [][\A r \in IngestReqs :
            (ing[r].pc = "idle" /\ ing'[r].pc # "idle" /\ ~ing'[r].body.ok) =>
              /\ ing'[r].pc = "done"
              /\ ing'[r].status = 400
              /\ UNCHANGED << alertCriteria, triggeredAlerts, mu, clients,
                              Send, closed, hubLog, hubPc >>]_vars
    /\ [](\A r \in IngestReqs :
            ing[r].status = 400 =>
              /\ ing[r].pc = "done" /\ ~ing[r].body.ok
              /\ AlertsOfIn(r, triggeredAlerts) = << >>
              /\ UpdatesOf(r) = << >> /\ AlertEventsOf(r) = << >>)

\* A malformed ingestion was rejected while a client was registered with a
\* message buffered and the alert log was not empty.
C5_Witness ==
    \E r \in IngestReqs, c \in Endpoints :
        /\ ing[r].status = 400
        /\ c \in clients /\ Send[c] # << >>
        /\ triggeredAlerts # << >>

\* C6: once two concurrent ingestions have both completed, the alert log holds
\* every Alert either of them built (each alert broadcast's Alert exactly once,
\* and nothing else), each entry a complete Alert of one of the ingested
\* aircraft and a criterion of the list that matches it.
C6_ConcurrentAppends ==
    (\A r \in IngestReqs : ing[r].pc = "done") =>
        /\ Len(triggeredAlerts) = Len(EventsOf("alert"))
        /\ \A al \in RangeOf(DataOf(EventsOf("alert"))) :
             Count(al, triggeredAlerts) = 1
        /\ \A al \in RangeOf(triggeredAlerts) :
             /\ \E r \in IngestReqs : al.aircraft = ing[r].aircraft
             /\ al.criteria \in RangeOf(alertCriteria)
             /\ ClaimMatch(al.criteria, al.aircraft)
             /\ al.message = AlertMessage(al.aircraft)

\* Two ingestions overlapped: the one that arrived second appended its Alert
\* first, and the log holds the Alerts of both.
C6_Witness ==
    /\ \A r \in IngestReqs : ing[r].pc = "done" /\ ing[r].status = 200
    /\ Len(triggeredAlerts) = 3
    /\ IsOf("r2", triggeredAlerts[1].aircraft)
    /\ IsOf("r1", triggeredAlerts[2].aircraft)
    /\ IsOf("r1", triggeredAlerts[3].aircraft)
    /\ ing["r1"].aircraft.callsign = "TARGET1"
    /\ ing["r2"].aircraft.callsign = "Y"

\* C7: GET /api/alerts answers 200 with all the Alerts triggered so far, in
\* the order their alert broadcasts were processed; the slice it returns is the
\* caller's own: a caller overwriting an element changes neither the alert log
\* nor a slice another call returned, and a returned slice changes only by its
\* own caller's write, not by Alerts appended later.
C7_AlertSnapshot ==
    /\ [][\A g \in GetReqs :
            (get[g].pc = "idle" /\ get'[g].pc # "idle") =>
              /\ get'[g].status = 200
              /\ get'[g].items = triggeredAlerts
              /\ get'[g].items = DataOf(EventsOf("alert"))]_vars
    /\ [][\A g \in GetReqs :
            (get[g].pc = "done" /\ get'[g].pc = "mutated") =>
              /\ triggeredAlerts' = triggeredAlerts
              /\ \A h \in GetReqs \ {g} : get'[h] = get[h]]_vars
    /\ [][\A g \in GetReqs :
            get'[g].pc = get[g].pc => get'[g].items = get[g].items]_vars

\* The first call returned [A, B], its caller overwrote an element, a third
\* Alert C was appended, and the second call returned [A, B, C], the log.
C7_Witness ==
    /\ get["g1"].pc = "mutated" /\ Len(get["g1"].items) = 2
    /\ get["g1"].items # SubSeq(triggeredAlerts, 1, 2)
    /\ get["g2"].pc = "done" /\ Len(get["g2"].items) = 3
    /\ get["g2"].items = triggeredAlerts
    /\ \A i \in 1..3 : triggeredAlerts[i] # ZeroAlert

\* Client c has been enqueued the k-th broadcast the Hub processed.
Received(k, c) == hubLog[k] \in RangeOf(Delivered(c))

\* The k-th broadcast is the latest and its loop has not reached c yet.
Unsettled(k, c) == k = Len(hubLog) /\ AwaitsVisit(c)

\* C8 as stated: the clients that receive a broadcast are exactly those in the
\* Hub's set when the Hub processed it.
C8_ExactlyTheRegistered ==
    \A k \in 1..Len(hubLog) : \A c \in Endpoints :
        ~Unsettled(k, c) => (Received(k, c) <=> c \in hubMembers[k])

\* C8, amended: the clients that receive a broadcast are exactly those in the
\* Hub's set when the Hub processed it whose queue had room when the loop
\* reached them (one with a full queue is removed instead); the set holds only
\* clients registered before the broadcast and every such client that is still
\* registered, and a client registered after never receives it.
C8_RegisteredWithRoom ==
    \A k \in 1..Len(hubLog) : \A c \in Endpoints :
        /\ ~Unsettled(k, c) =>
             (Received(k, c) <=> (c \in hubMembers[k] /\ ep[c].dropAt # k))
        /\ c \in hubMembers[k] => ep[c].regAt < k
        /\ (c \in clients /\ ep[c].regAt < k) => c \in hubMembers[k]
        /\ (ep[c].pc \notin {"init", "register", "rejected"} /\ ep[c].regAt >= k)
              => ~Received(k, c)

\* One client registered before the first broadcast and received it; the other
\* registered after it and received the second broadcast but not the first.
C8_Witness ==
    \E c, d \in Endpoints :
        /\ Len(hubLog) >= 2
        /\ ep[d].regAt = 0 /\ Received(1, d)
        /\ ep[c].regAt = 1 /\ ~Received(1, c) /\ Received(2, c)

\* C9: every way out of the streaming loop (queue closed by the Hub, write
\* failure, cancellation) leads to the unregister request, which the Hub serves
\* in the end; once the handler has returned, the client is out of the Hub's
\* set and its queue is closed.
C9_EndpointReleased ==
    /\ [][\A c \in Endpoints :
            (ep[c].pc = "loop" /\ ep'[c].pc # "loop") =>
               ep'[c].pc = "unregister"]_vars
    /\ [](\A c \in Endpoints :
            ep[c].pc = "closed" => (c \notin clients /\ closed[c]))
    /\ \A c \in Endpoints : (ep[c].pc = "unregister") ~> (ep[c].pc = "closed")

\* Both handlers have returned: one after the Hub dropped its client with a
\* full queue, the other on its own; neither is in the set, both queues closed.
C9_Witness ==
    \E c, d \in Endpoints :
        /\ ep[c].pc = "closed" /\ ep[c].dropAt > 0
        /\ ep[d].pc = "closed" /\ ep[d].dropAt = 0
        /\ clients = {} /\ closed[c] /\ closed[d]

\* C10: a well-formed POST /api/alert-criteria appends its criterion at the
\* end of the list and answers 201, a malformed one answers 400 and leaves the
\* list unchanged, and neither touches the alert log or broadcasts; the list
\* does not change while an ingestion holds the lock, and the ingestion's loop
\* covers the whole list as it stands at that time.
C10_CriteriaAppend ==
    /\ [][\A k \in CritReqs :
            /\ (crit[k].pc = "idle" /\ crit'[k].pc # "idle") =>
                 /\ UNCHANGED << alertCriteria, triggeredAlerts, hubLog >>
                 /\ IF crit'[k].body.ok
                      THEN crit'[k].pc = "lock" /\ crit'[k].status = 0
                      ELSE crit'[k].pc = "done" /\ crit'[k].status = 400
            /\ (crit[k].pc = "lock" /\ crit'[k].pc # "lock") =>
                 /\ crit'[k].pc = "done" /\ crit'[k].status = 201
                 /\ alertCriteria' =
                      Append(alertCriteria,
                             MkCriteria(crit[k].body.icao, crit[k].body.callsign))
                 /\ UNCHANGED << triggeredAlerts, hubLog >>]_vars
    /\ [][alertCriteria' # alertCriteria =>
            /\ mu = NoOne
            /\ \E k \in CritReqs : crit[k].pc = "lock" /\ crit'[k].pc = "done"]_vars
    /\ [](\A r \in IngestReqs :
            ing[r].pc \in {"match", "append", "sendAlert"} =>
               (mu = r /\ ing[r].n = Len(alertCriteria)))

\* A criterion was appended between two ingestions of the same aircraft: the
\* first evaluated the two initial criteria, the second all three.
C10_Witness ==
    /\ \E k \in CritReqs : crit[k].status = 201
    /\ \E k \in CritReqs : crit[k].status = 400
    /\ Len(alertCriteria) = 3
    /\ \E r, q \in IngestReqs :
         /\ ing[r].pc = "done" /\ ing[r].n = 2
         /\ ing[q].pc = "done" /\ ing[q].n = 3
         /\ Len(AlertsOfIn(q, triggeredAlerts)) = Len(AlertsOfIn(r, triggeredAlerts)) + 1

\* The direct caller's requests of one kind for client c, counted.
Requests(kind, c) == Count(<< kind, c >>, reqs)

\* The last two requests the Hub received were register requests for c.
RegisteredTwice(c) ==
    /\ Len(reqs) >= 2
    /\ reqs[Len(reqs)] = << "register", c >>
    /\ reqs[Len(reqs) - 1] = << "register", c >>

\* C11: after any sequence of register, unregister and broadcast requests,
\* each client appears in the Hub's client set at most once: hub.clients
\* never holds more than one entry for a client.
C11_AtMostOnce == \A c \in Endpoints : clientCount[c] <= 1

\* A client that was registered, unregistered and registered twice again,
\* with a broadcast among the requests, is in the set.
C11_Witness ==
    \E c \in Endpoints :
        /\ RegisteredTwice(c)
        /\ Requests("unregister", c) >= 1
        /\ Requests("broadcast", NoOne) >= 1
        /\ c \in clients

\* The Hub receives this request of the direct caller in this step.
Accepts(kind, c) == reqs' = Append(reqs, << kind, c >>)

\* C12, as the specification words it: a register request for a client that
\* is in the set gives it one more membership, and an unregister request
\* that follows two register requests for a client leaves the client in the
\* set.
C12_TwoMemberships ==
    [][\A c \in Endpoints :
          /\ (Accepts("register", c) /\ c \in clients)
               => clientCount'[c] = clientCount[c] + 1
          /\ (Accepts("unregister", c) /\ RegisteredTwice(c))
               => c \in clients']_vars

\* C12, amended: register is idempotent.  A register request for a client
\* that is in the set changes nothing; a broadcast enqueues its message once
\* for a client with an open queue that has room, so no client is enqueued
\* more messages than the Hub received; and one unregister request removes a
\* client of the set from the set and closes its queue.
C12_RegisterIdempotent ==
    /\ [](\A c \in Endpoints : Len(Delivered(c)) <= Len(hubLog))
    /\ [][\A c \in Endpoints :
             /\ (Accepts("register", c) /\ c \in clients)
                  => UNCHANGED << clientCount, Send, closed >>
             /\ (Visits(c) /\ ~closed[c] /\ ~QueueFull(Send[c]))
                  => Send'[c] = Append(Send[c], hubMsg)
             /\ (Accepts("unregister", c) /\ c \in clients)
                  => (c \notin clients' /\ closed'[c])]_vars

\* Two register requests for a client, a broadcast that enqueued one message
\* for it, and one unregister request, after which it is gone.
C12_Witness ==
    \E c \in Endpoints :
        /\ reqs = << << "register", c >>, << "register", c >>,
                     << "broadcast", NoOne >>, << "unregister", c >> >>
        /\ Delivered(c) = << CallMsg >>
        /\ c \notin clients /\ closed[c]

\* The Hub, serving an unregister request for c, closes a closed queue.
SecondClose(c) == Accepts("unregister", c) /\ hubPc' = "panic"

\* An unregister request for a client that is not in the set changes neither
\* the set nor any queue, and the Hub goes on.
AbsentIsNoOp(c) ==
    (Accepts("unregister", c) /\ c \notin clients)
        => UNCHANGED << clientCount, closed, Send, hubPc >>

Waiting ==
    \/ hubPc = "fanout"
    \/ \E r \in IngestReqs : ing[r].pc \notin {"idle", "done"}
    \/ \E c \in MixEndpoints : ep[c].pc \in {"register", "unregister"}
    \/ \E k \in HubCrit : crit[k].pc = "lock"

\* A step of the Hub or of a handler that needs nothing of the outside: no
\* request arriving, no client reading or going away.
ProgramStep ==
    \/ \E c \in MixEndpoints : HubRegister(c) \/ HubUnregister(c) \/ HubDeliver(c)
    \/ \E r \in IngestReqs :
          HubBroadcast(r) \/ IngestLock(r) \/ IngestMatch(r) \/ IngestAppend(r)
    \/ \E k \in HubCrit : CritAppend(k)

\* Ingestion r is blocked sending on hub.broadcast.
Sending(r) == ing[r].pc \in {"sendUpdate", "sendAlert"}

\* C14: the Hub's processing of a broadcast never waits on a client.  No
\* reachable state is a deadlock (whenever a goroutine waits, the Hub or a
\* handler can step, and the Hub has not panicked); every broadcast request
\* is eventually accepted and its range loop runs to its end, whatever the
\* endpoints do; and every well-formed ingestion eventually answers 200 with
\* the lock released.
C14_BroadcastNeverWaits ==
    /\ [](hubPc # "panic" /\ (Waiting => ENABLED ProgramStep))
    /\ \A r \in IngestReqs : Sending(r) ~> (ing[r].pc = "match")
    /\ (hubPc = "fanout") ~> (hubPc = "select")
    /\ \A r \in IngestReqs :
          (ing[r].pc = "lock")
              ~> (ing[r].pc = "done" /\ ing[r].status = 200 /\ mu # r)

\* Both ingestions answered 200 and the lock is free although the one endpoint
\* never read a message and was dropped with its queue full.
C14_Witness ==
    /\ \A r \in IngestReqs : ing[r].pc = "done" /\ ing[r].status = 200
    /\ mu = NoOne /\ hubPc = "select"
    /\ \E c \in MixEndpoints :
          /\ ep[c].received = << >> /\ ep[c].dropAt > 0
          /\ Len(Send[c]) = SendCap /\ closed[c]

\* C15: each streaming endpoint sends exactly one unregister request over its
\* lifetime, and only after the Hub accepted its register request.  The Hub
\* never receives more unregister requests of an endpoint than one, nor more
\* than register requests; a handler that has returned has sent one, a
\* rejected one none; every exit from the send loop, cancellation included,
\* goes to the unregister request, which the Hub receives in the end.
C15_OneUnregister ==
    /\ [](\A c \in Endpoints :
             /\ ep[c].unregs <= 1 /\ ep[c].regs <= 1
             /\ ep[c].unregs <= ep[c].regs
             /\ ep[c].pc = "closed" => ep[c].unregs = 1
             /\ ep[c].pc \in {"loop", "unregister"}
                  => (ep[c].regs = 1 /\ ep[c].unregs = 0)
             /\ ep[c].pc \in {"init", "register", "rejected"}
                  => (ep[c].regs = 0 /\ ep[c].unregs = 0))
    /\ [][\A c \in Endpoints :
             (ep[c].pc = "loop" /\ ep'[c].pc # "loop")
                 => ep'[c].pc = "unregister"]_vars
    /\ \A c \in Endpoints : (ep[c].pc = "unregister") ~> (ep[c].unregs = 1)

\* An endpoint that read nothing and was not dropped left by cancellation, and
\* the Hub has received its one unregister request.
C15_Witness ==
    \E c \in Endpoints :
        /\ ep[c].pc = "closed" /\ ep[c].unregs = 1 /\ ep[c].regs = 1
        /\ ep[c].received = << >> /\ ep[c].dropAt = 0
        /\ Len(hubLog) > ep[c].regAt

\* Sequence a is an initial part of sequence b.
IsPrefix(a, b) == Len(a) <= Len(b) /\ SubSeq(b, 1, Len(a)) = a

\* C16: in every step the criteria list and the alert log stay unchanged or
\* are extended at the end: the previous contents remain a prefix of the new
\* contents.
C16_AppendOnly ==
    [][/\ IsPrefix(alertCriteria, alertCriteria')
       /\ IsPrefix(triggeredAlerts, triggeredAlerts')]_vars

\* Both lists have grown, by concurrent requests, and a caller has overwritten
\* an element of the snapshot it was given.
C16_Witness ==
    /\ Len(triggeredAlerts) >= 3
    /\ Len(alertCriteria) = Len(InitialCriteria) + 2
    /\ \E r, q \in IngestReqs :
          r # q /\ AlertsOfIn(r, triggeredAlerts) # << >>
                /\ AlertsOfIn(q, triggeredAlerts) # << >>
    /\ \E g \in GetReqs : get[g].pc = "mutated" /\ Len(get[g].items) >= 1

\* The handler of c answers 500 in this step.
Rejects(c) == ep[c].status # 500 /\ ep'[c].status = 500

\* C17: when the transport cannot stream the handler answers 500 before it
\* creates or registers a client.  A connection answered 500 has ended: the
\* Hub has received no register and no unregister request of it, it is in no
\* client set any broadcast saw, and it has no queue in use; the answer
\* itself leaves the client set and the queues as they were, and nothing
\* happens to the connection afterwards.
C17_NoStreamNoClient ==
    /\ [](\A c \in Endpoints :
             ep[c].status = 500 =>
                 /\ ep[c].pc = "rejected"
                 /\ ep[c].regs = 0 /\ ep[c].unregs = 0
                 /\ c \notin clients
                 /\ \A k \in 1..Len(hubMembers) : c \notin hubMembers[k]
                 /\ Send[c] = << >> /\ ~closed[c] /\ ep[c].received = << >>)
    /\ [][\A c \in Endpoints :
             /\ Rejects(c) => UNCHANGED << clientCount, Send, closed >>
             /\ ep[c].pc = "rejected" => ep'[c] = ep[c]]_vars

\* One connection was answered 500 while the other is registered and has been
\* enqueued a broadcast.
C17_Witness ==
    \E c, d \in Endpoints :
        /\ ep[c].pc = "rejected" /\ ep[c].status = 500
        /\ d \in clients /\ Delivered(d) # << >>
        /\ clients = {d}

\* The aircraft a broadcast message is about, and whether ingestion r sent it.
AircraftOf(m) == IF m.event = "alert" THEN m.data.aircraft ELSE m.data

SentBy(r, m) == IsOf(r, AircraftOf(m))

\* The messages of ingestion r in a sequence of messages, in order.
GroupOf(r, msgs) ==
    LET Mine(m) == SentBy(r, m) IN SelectSeq(msgs, Mine)

\* No message of another ingestion lies between two messages of one.
Contiguous(msgs) ==
    \A r \in IngestReqs :
        \A i, j, k \in 1..Len(msgs) :
            (i < j /\ j < k /\ SentBy(r, msgs[i]) /\ SentBy(r, msgs[k]))
                => SentBy(r, msgs[j])

\* The index of the criterion an Alert was built for.
CriterionIndex(alert) == alert.timestamp[2]

\* An aircraftUpdate, then alerts only, in criterion order.
UpdateThenAlerts(g) ==
    g # << >> =>
        /\ g[1].event = "aircraftUpdate"
        /\ \A i \in 2..Len(g) : g[i].event = "alert"
        /\ \A i \in 3..Len(g) :
              CriterionIndex(g[i - 1].data) < CriterionIndex(g[i].data)

\* C18: the broadcasts of one ingestion are contiguous in the Hub's processing
\* order: its aircraftUpdate, then its alerts in criterion order, with no event
\* of a concurrent ingestion in between; and what a client has been enqueued
\* shows every ingestion's events as one uninterrupted group.
C18_GroupsContiguous ==
    /\ Contiguous(hubLog)
    /\ \A r \in IngestReqs : UpdateThenAlerts(GroupOf(r, hubLog))
    /\ \A c \in MixEndpoints : Contiguous(Delivered(c))

\* One ingestion is between its two alert broadcasts, holding the lock the
\* other waits for, and the registered client has been enqueued its events.
C18_Witness ==
    \E r, q \in IngestReqs :
        /\ ing[r].pc = "sendAlert" /\ Len(GroupOf(r, hubLog)) = 2
        /\ ing[q].pc = "lock"
        /\ \E c \in MixEndpoints : c \in clients /\ Len(GroupOf(r, Delivered(c))) = 2

\* The place of x in a sequence that holds it.
PosIn(x, seq) == CHOOSE i \in 1..Len(seq) : seq[i] = x

\* Any two Alerts of the sequence alerts are alert broadcasts the Hub has
\* processed, and stand in alerts in the order of their broadcasts.
InBroadcastOrder(alerts) ==
    LET events == DataOf(EventsOf("alert")) IN
    \A a, b \in RangeOf(alerts) :
        /\ Count(a, events) = 1 /\ Count(a, alerts) = 1
        /\ PosIn(a, alerts) < PosIn(b, alerts)
             <=> PosIn(a, events) < PosIn(b, events)

\* C19: the order of the Alerts in the alert log, and in every result of
\* GET /api/alerts, is the order in which the Hub processed their alert
\* broadcasts.  The log runs ahead of the broadcasts by at most its last
\* Alert, the one whose broadcast its ingestion is about to send.
C19_LogInBroadcastOrder ==
    LET events == DataOf(EventsOf("alert"))
        sent == SubSeq(triggeredAlerts, 1, Len(events)) IN
    /\ Len(events) <= Len(triggeredAlerts)
    /\ Len(triggeredAlerts) <= Len(events) + 1
    /\ Len(triggeredAlerts) = Len(events) + 1
         => \E r \in IngestReqs :
               /\ ing[r].pc = "sendAlert"
               /\ ing[r].alert = triggeredAlerts[Len(triggeredAlerts)]
    /\ InBroadcastOrder(sent)
    /\ RangeOf(sent) = RangeOf(events)
    /\ \A g \in GetReqs : get[g].pc = "done" => InBroadcastOrder(get[g].items)

\* The ingestion that arrived second took the lock first: its Alert stands
\* before the two of the other in the log, in the broadcasts and in the result
\* of a GET /api/alerts.
C19_Witness ==
    /\ Len(EventsOf("alert")) = 3
    /\ IsOf("r2", EventsOf("alert")[1].data.aircraft)
    /\ IsOf("r1", EventsOf("alert")[3].data.aircraft)
    /\ \E g \in GetReqs :
          /\ get[g].pc = "done" /\ Len(get[g].items) = 3
          /\ IsOf("r2", get[g].items[1].aircraft)

\* The handler of c leaves its send loop in this step.
LeavesLoop(c) == ep[c].pc = "loop" /\ ep'[c].pc # "loop"

\* The ways out of the send loop: the closed queue observed, with every
\* message the Hub enqueued before the drop read; the connection cancelled;
\* a message read whose write to the connection failed.
ExitDrained(c) ==
    /\ ep'[c].exit = "closed"
    /\ Send[c] = << >> /\ UNCHANGED Send
    /\ ep'[c].received = SubSeq(hubLog, ep[c].regAt + 1, ep[c].dropAt - 1)
    /\ Len(ep'[c].received) >= SendCap

ExitCancelled(c) ==
    /\ ep'[c].exit = "cancel"
    /\ UNCHANGED Send /\ ep'[c].received = ep[c].received

ExitWriteFailed(c) ==
    /\ ep'[c].exit = "write"
    /\ Send[c] # << >> /\ Send'[c] = Tail(Send[c])
    /\ ep'[c].received = Append(ep[c].received, Head(Send[c]))

\* What c has read is a gap-free run of the Hub's broadcasts that starts with
\* the first one processed after its registration.
ReadsRun(c) ==
    ep[c].received =
        SubSeq(hubLog, ep[c].regAt + 1, ep[c].regAt + Len(ep[c].received))

\* C20, as the specification words it: what an endpoint reads is always a
\* gap-free run of the broadcasts from its registration on, and an endpoint
\* whose full queue the Hub closed leaves its loop only with the buffered
\* messages read and the closure observed, or by cancellation.
C20_DrainsUnlessCancelled ==
    /\ [](\A c \in Endpoints : ReadsRun(c))
    /\ [][\A c \in Endpoints :
             (LeavesLoop(c) /\ closed[c])
                 => (ExitDrained(c) \/ ExitCancelled(c))]_vars

\* C20, amended: a failed write to the connection ends the endpoint early as
\* cancellation does.  What an endpoint reads is always a gap-free run of the
\* broadcasts from its registration on; every read takes the oldest buffered
\* message; an endpoint whose full queue the Hub closed leaves its loop with
\* the buffered messages read and the closure observed, or by cancellation,
\* or by a failed write; and it does leave the loop.
C20_DrainsUnlessEnded ==
    /\ [](\A c \in Endpoints : ReadsRun(c))
    /\ [][\A c \in Endpoints :
             /\ (LeavesLoop(c) /\ closed[c])
                  => (ExitDrained(c) \/ ExitCancelled(c) \/ ExitWriteFailed(c))
             /\ ep'[c].received # ep[c].received
                  => (/\ Send[c] # << >> /\ Send'[c] = Tail(Send[c])
                      /\ ep'[c].received = Append(ep[c].received, Head(Send[c])))]_vars
    /\ \A c \in Endpoints :
          (closed[c] /\ ep[c].pc = "loop") ~> (ep[c].pc # "loop")

\* An endpoint that had read nothing when its full queue was closed has read
\* the buffered messages, observed the closure and returned.
C20_Witness ==
    \E c \in Endpoints :
        /\ ep[c].pc = "closed" /\ ep[c].dropAt = ep[c].regAt + SendCap + 1
        /\ Send[c] = << >>
        /\ ep[c].received = SubSeq(hubLog, ep[c].regAt + 1, ep[c].dropAt - 1)

\* C21: every client in the Hub's client set has an open queue that holds at
\* most SendCap messages, so the Hub never attempts to enqueue onto a closed
\* queue: the range loop visits only clients of the set, whose queues are
\* open, and the Hub never panics.  The handlers provide what the statement
\* asks of them: the Hub receives one register request per client at most,
\* and no unregister request before it.
C21_MembersHaveOpenQueues ==
    /\ [](\A c \in clients : ~closed[c] /\ Len(Send[c]) <= SendCap)
    /\ [](hubPc # "panic" /\ (hubPc = "fanout" => hubTodo \subseteq clients))
    /\ [](\A c \in Endpoints : ep[c].regs <= 1 /\ ep[c].unregs <= ep[c].regs)
    /\ [][\A c \in Endpoints :
             Visits(c) => (c \in clients /\ ~closed[c] /\ hubPc' # "panic")]_vars

\* In one range loop the Hub has dropped a client with a full queue and closed
\* its queue, and has still to visit the other, a client of the set whose
\* queue is full and open.
C21_Witness ==
    \E c, d \in Endpoints :
        /\ hubPc = "fanout" /\ hubTodo = {c}
        /\ c \in clients /\ ~closed[c] /\ Len(Send[c]) = SendCap
        /\ d \notin clients /\ closed[d] /\ ep[d].dropAt = Len(hubLog)
        /\ ep[c].regs = 1 /\ ep[d].regs = 1


====
